---------------------------- MODULE Spec2Model ----------------------------
(***************************************************************************)
(* A model of src/src/App.js: the stock dashboard (slot array, detail      *)
(* view, add/replace dialog) and the fetchStockData pipeline (symbol       *)
(* search, series fetch, window filter, overview fetch, statistics).       *)
(*                                                                         *)
(* Conventions.                                                            *)
(*  - JavaScript values that may be null / undefined / NaN are records of  *)
(*    distinct shapes (Null, Undefined, NaN, Num(n)), so that they can be  *)
(*    compared with each other.                                            *)
(*  - Strings the code trims, upper-cases or compares are sequences of     *)
(*    one-character strings; upstream numeric texts are Txt(n).            *)
(*  - Instants are integers counting hours.  The calendar is a uniform     *)
(*    grid (24 h days, 30 day months, 12 month years); only the order of   *)
(*    instants and the cutoffs of the window rules matter here.            *)
(*  - An object keyed by date (the time series) is the sequence of its     *)
(*    entries in key insertion order, which is the order Object.keys       *)
(*    returns for date strings.                                            *)
(***************************************************************************)
EXTENDS Integers, Sequences, FiniteSets, TLC

(***************************************************************************)
(* Bounds of the model.                                                    *)
(***************************************************************************)
\* the longest raw series enumerated point by point
MaxLen == 3
\* requests the user starts in one run of the dashboard
MaxRequests == 2

(***************************************************************************)
(* Program constants.                                                      *)
(***************************************************************************)
NUM_STOCKS == 10
MAX_STOCK_SYMBOL_LENGTH == 20
\* allDates.slice(0, 96): the lookback of the 1D fallback
FallbackCount == 96
\* Object.keys(timeSeries).slice(-260): the 52-week slice
WeekRangeCount == 260

(***************************************************************************)
(* JavaScript values.                                                      *)
(***************************************************************************)
Null == [null |-> TRUE]
Undefined == [undef |-> TRUE]
NaN == [nan |-> TRUE]
Num(n) == [num |-> n]
\* an exact quotient n / d, d # 0 (a JavaScript number that is no integer)
Quot(n, d) == [quot |-> n, by |-> d]
\* upstream texts: a numeric string, the empty string, a non-numeric string
Txt(n) == [txt |-> n]
EmptyTxt == [emptytxt |-> TRUE]
BadTxt == [badtxt |-> TRUE]

IsNum(v) == "num" \in DOMAIN v

\* parseFloat / parseInt of an upstream text (numeric texts are integers here)
ParseFloat(t) == IF "txt" \in DOMAIN t THEN Num(t.txt) ELSE NaN

\* JavaScript truthiness of an upstream text or undefined
Truthy(t) == ("txt" \in DOMAIN t) \/ ("badtxt" \in DOMAIN t)

Min(a, b) == IF a <= b THEN a ELSE b

Reverse(s) == [i \in 1..Len(s) |-> s[Len(s) + 1 - i]]

\* Array.prototype.slice(0, n)
SliceFirst(s, n) == SubSeq(s, 1, Min(n, Len(s)))

\* Array.prototype.slice(-n)
SliceLast(s, n) == SubSeq(s, Len(s) - Min(n, Len(s)) + 1, Len(s))

\* Array.prototype.filter with the predicate date >= cutoff of the window rules
\* (of the elements lo .. hi of s, halving the range)
RECURSIVE FilterRange(_, _, _, _)
FilterRange(s, cutoff, lo, hi) ==
    IF lo > hi THEN <<>>
    ELSE IF lo = hi THEN (IF s[lo] >= cutoff THEN <<s[lo]>> ELSE <<>>)
    ELSE FilterRange(s, cutoff, lo, (lo + hi) \div 2)
         \o FilterRange(s, cutoff, (lo + hi) \div 2 + 1, hi)

FilterSince(s, cutoff) == FilterRange(s, cutoff, 1, Len(s))

(***************************************************************************)
(* Time.                                                                   *)
(***************************************************************************)
HoursPerDay == 24
HoursPerMonth == 30 * HoursPerDay
HoursPerYear == 12 * HoursPerMonth

\* new Date(currentDate.getFullYear(), 0, 1)
StartOfYear(now) == now - (now % HoursPerYear)

\* new Date().getMonth()
GetMonth(now) == (now % HoursPerYear) \div HoursPerMonth

(***************************************************************************)
(* getTimeFrameParams                                                      *)
(***************************************************************************)
TimeFrames == {"1D", "5D", "1M", "6M", "YTD", "1Y", "5Y", "ALL"}

\* the default branch of the switch throws
ValidTimeFrame(timeFrame) == timeFrame \in TimeFrames

getTimeFrameParams(timeFrame, now) ==
    CASE timeFrame = "1D" ->
           [endpoint |-> "TIME_SERIES_INTRADAY", interval |-> "15min",
            dateRange |-> "undefined", timeUnit |-> "hour", ticks |-> 24]
      [] timeFrame = "5D" ->
           [endpoint |-> "TIME_SERIES_INTRADAY", interval |-> "60min",
            dateRange |-> "undefined", timeUnit |-> "day", ticks |-> 5]
      [] timeFrame = "1M" ->
           [endpoint |-> "TIME_SERIES_DAILY_ADJUSTED", interval |-> "",
            dateRange |-> "undefined", timeUnit |-> "day", ticks |-> 22]
      [] timeFrame = "6M" ->
           [endpoint |-> "TIME_SERIES_DAILY_ADJUSTED", interval |-> "",
            dateRange |-> "undefined", timeUnit |-> "month", ticks |-> 6]
      [] timeFrame = "YTD" ->
           [endpoint |-> "TIME_SERIES_WEEKLY_ADJUSTED", interval |-> "",
            dateRange |-> "undefined", timeUnit |-> "month",
            ticks |-> GetMonth(now) + 1]
      [] timeFrame = "1Y" ->
           [endpoint |-> "TIME_SERIES_WEEKLY_ADJUSTED", interval |-> "",
            dateRange |-> "undefined", timeUnit |-> "month", ticks |-> 12]
      [] timeFrame = "5Y" ->
           [endpoint |-> "TIME_SERIES_WEEKLY_ADJUSTED", interval |-> "",
            dateRange |-> "undefined", timeUnit |-> "year", ticks |-> 5]
      [] timeFrame = "ALL" ->
           [endpoint |-> "TIME_SERIES_MONTHLY_ADJUSTED", interval |-> "",
            dateRange |-> "Infinity", timeUnit |-> "year", ticks |-> 20]

\* endpoint.includes('ADJUSTED') ? '6. volume' : '5. volume'
VolumeKey(endpoint) ==
    IF endpoint \in {"TIME_SERIES_DAILY_ADJUSTED", "TIME_SERIES_WEEKLY_ADJUSTED",
                     "TIME_SERIES_MONTHLY_ADJUSTED"}
    THEN "6. volume" ELSE "5. volume"

\* timeSeriesKeyMap[endpoint]
timeSeriesKeyMap(endpoint, interval) ==
    CASE endpoint = "TIME_SERIES_INTRADAY" ->
           IF interval = "15min" THEN "Time Series (15min)"
           ELSE IF interval = "60min" THEN "Time Series (60min)"
           ELSE "Time Series ()"
      [] endpoint = "TIME_SERIES_DAILY" -> "Time Series (Daily)"
      [] endpoint = "TIME_SERIES_DAILY_ADJUSTED" -> "Time Series (Daily)"
      [] endpoint = "TIME_SERIES_WEEKLY" -> "Weekly Time Series"
      [] endpoint = "TIME_SERIES_WEEKLY_ADJUSTED" -> "Weekly Adjusted Time Series"
      [] endpoint = "TIME_SERIES_MONTHLY" -> "Monthly Time Series"
      [] endpoint = "TIME_SERIES_MONTHLY_ADJUSTED" -> "Monthly Adjusted Time Series"

(***************************************************************************)
(* The time series of a response: entries [date, data] in key order; data  *)
(* maps the upstream's positional field names to texts.                    *)
(***************************************************************************)
\* Object.keys(timeSeries)
Keys(timeSeries) == [i \in 1..Len(timeSeries) |-> timeSeries[i].date]

\* timeSeries[date]: undefined for a key the object lacks (and for date undefined)
Lookup(timeSeries, date) ==
    IF \E i \in 1..Len(timeSeries) : timeSeries[i].date = date
    THEN timeSeries[CHOOSE i \in 1..Len(timeSeries) : timeSeries[i].date = date].data
    ELSE Undefined

\* data[field]: undefined for a field the point lacks
Field(data, field) == IF field \in DOMAIN data THEN data[field] ELSE Undefined

\* dates[dates.length - 1], dates[dates.length - 2]: undefined out of range
At(dates, i) == IF i \in 1..Len(dates) THEN Num(dates[i]) ELSE Undefined

\* timeSeries[d] for d an element of dates or undefined
LookupAt(timeSeries, d) == IF IsNum(d) THEN Lookup(timeSeries, d.num) ELSE Undefined

(***************************************************************************)
(* The window step of fetchStockData.                                      *)
(***************************************************************************)
\* a faulty lookback: the slice without the reversal
Fallback1D_Unreversed(allDates) == SliceFirst(allDates, FallbackCount)

\* allDates.slice(0, 96).reverse()
Fallback1D(allDates) == Reverse(SliceFirst(allDates, FallbackCount))

\* allDates.filter(date >= cutoff).reverse()
Since(allDates, cutoff) == Reverse(FilterSince(allDates, cutoff))

\* the if / else-if chain on timeFrame that computes dates
Window(timeFrame, allDates, now) ==
    CASE timeFrame = "1D" ->
           IF Len(Since(allDates, now - HoursPerDay)) = 0
           THEN Fallback1D(allDates)
           ELSE Since(allDates, now - HoursPerDay)
      [] timeFrame = "5D" -> Since(allDates, now - 5 * HoursPerDay)
      [] timeFrame = "1M" -> Since(allDates, now - HoursPerMonth)
      [] timeFrame = "6M" -> Since(allDates, now - 6 * HoursPerMonth)
      [] timeFrame = "YTD" -> Since(allDates, StartOfYear(now))
      [] timeFrame = "1Y" -> Since(allDates, now - HoursPerYear)
      [] timeFrame = "5Y" -> Since(allDates, now - 5 * HoursPerYear)
      [] timeFrame = "ALL" -> Reverse(allDates)
      [] OTHER -> Reverse(allDates)

(***************************************************************************)
(* JavaScript arithmetic on Num / NaN / Quot / Infinity.                   *)
(***************************************************************************)
Infinity(sign) == [inf |-> sign]

Abs(n) == IF n < 0 THEN -n ELSE n

RECURSIVE GCD(_, _)
GCD(a, b) == IF b = 0 THEN a ELSE GCD(b, a % b)

\* n / d for integers n, d
Divide(n, d) ==
    IF d = 0 THEN (IF n = 0 THEN NaN ELSE Infinity(IF n > 0 THEN 1 ELSE -1))
    ELSE LET g == GCD(Abs(n), Abs(d))
             s == IF d < 0 THEN -1 ELSE 1
             nn == (s * n) \div g
             dd == Abs(d) \div g
         IN IF dd = 1 THEN Num(nn) ELSE Quot(nn, dd)

\* Math.min(...values) / Math.max(...values) of a non-empty array: NaN if any is NaN
MinOf(values) ==
    IF \E i \in 1..Len(values) : ~IsNum(values[i]) THEN NaN
    ELSE Num(CHOOSE m \in {values[i].num : i \in 1..Len(values)} :
                \A i \in 1..Len(values) : m <= values[i].num)

MaxOf(values) ==
    IF \E i \in 1..Len(values) : ~IsNum(values[i]) THEN NaN
    ELSE Num(CHOOSE m \in {values[i].num : i \in 1..Len(values)} :
                \A i \in 1..Len(values) : m >= values[i].num)

\* sum + parseInt(timeSeries[date][volumeKey] || 0)
VolumeTerm(timeSeries, date, volumeKey) ==
    IF Truthy(Field(Lookup(timeSeries, date), volumeKey))
    THEN ParseFloat(Field(Lookup(timeSeries, date), volumeKey))
    ELSE Num(0)

\* (the sum of the terms lo .. hi, halving the range)
RECURSIVE SumRange(_, _, _, _, _)
SumRange(timeSeries, dates, volumeKey, lo, hi) ==
    IF lo > hi THEN Num(0)
    ELSE IF lo = hi THEN VolumeTerm(timeSeries, dates[lo], volumeKey)
    ELSE LET left == SumRange(timeSeries, dates, volumeKey, lo, (lo + hi) \div 2)
             right == SumRange(timeSeries, dates, volumeKey, (lo + hi) \div 2 + 1, hi)
         IN IF IsNum(left) /\ IsNum(right) THEN Num(left.num + right.num) ELSE NaN

\* dates.reduce((sum, date) => sum + parseInt(timeSeries[date][volumeKey] || 0), 0)
SumVolume(timeSeries, dates, volumeKey) ==
    SumRange(timeSeries, dates, volumeKey, 1, Len(dates))

(***************************************************************************)
(* calculatePercentageChange                                               *)
(***************************************************************************)
\* a faulty change: from the two ends of the raw series (newest first)
calculatePercentageChange_Raw(timeSeries, dates) ==
    LET firstPrice == ParseFloat(Field(timeSeries[Len(timeSeries)].data, "4. close"))
        lastPrice == ParseFloat(Field(timeSeries[1].data, "4. close"))
    IN IF Len(timeSeries) < 2 THEN Num(0)
       ELSE IF ~IsNum(firstPrice) \/ ~IsNum(lastPrice) THEN NaN
       ELSE Divide((lastPrice.num - firstPrice.num) * 100, firstPrice.num)

calculatePercentageChange(timeSeries, dates) ==
    IF Len(dates) < 2 THEN Num(0)
    ELSE LET firstData == Lookup(timeSeries, dates[1])
             lastData == Lookup(timeSeries, dates[Len(dates)])
         IN IF firstData = Undefined \/ lastData = Undefined THEN Num(0)
            ELSE LET firstPrice == ParseFloat(Field(firstData, "4. close"))
                     lastPrice == ParseFloat(Field(lastData, "4. close"))
                 IN IF ~IsNum(firstPrice) \/ ~IsNum(lastPrice) THEN NaN
                    ELSE Divide((lastPrice.num - firstPrice.num) * 100, firstPrice.num)

(***************************************************************************)
(* computeDetailedStats                                                    *)
(***************************************************************************)
\* past52Weeks.map((date) => parseFloat(timeSeries[date][field]))
FieldValues(timeSeries, dates, field) ==
    [i \in 1..Len(dates) |-> ParseFloat(Field(Lookup(timeSeries, dates[i]), field))]

\* latestData && latestData[field] !== undefined ? parseFloat(latestData[field]) : null
OptionalField(data, field) ==
    IF data # Undefined /\ Field(data, field) # Undefined
    THEN ParseFloat(Field(data, field)) ELSE Null

\* a faulty read: the close whatever field is asked for
RequiredField_Close(data, field) ==
    IF data # Undefined THEN ParseFloat(Field(data, "4. close")) ELSE Null

\* data ? parseFloat(data[field]) : null
RequiredField(data, field) ==
    IF data # Undefined THEN ParseFloat(Field(data, field)) ELSE Null

\* Object.keys(timeSeries).slice(-260)
Past52Weeks(timeSeries) == SliceLast(Keys(timeSeries), WeekRangeCount)

\* a faulty bundle: the 52-week range computed whatever the length of the window
computeDetailedStats_RangeAlways(timeSeries, dates, volumeKey) ==
    [previousClose |-> Null, openPrice |-> Null, dayLow |-> Null,
     dayHigh |-> Null, volume |-> Null, adjustedClose |-> Null,
     dividendAmount |-> Null, splitCoefficient |-> Null,
     weekLow |-> IF Len(Past52Weeks(timeSeries)) > 0
                 THEN MinOf(FieldValues(timeSeries, Past52Weeks(timeSeries), "3. low"))
                 ELSE Null,
     weekHigh |-> IF Len(Past52Weeks(timeSeries)) > 0
                  THEN MaxOf(FieldValues(timeSeries, Past52Weeks(timeSeries), "2. high"))
                  ELSE Null,
     avgVolume |-> Null]

computeDetailedStats(timeSeries, dates, volumeKey) ==
    IF Len(dates) < 2
    THEN [previousClose |-> Null, openPrice |-> Null, dayLow |-> Null,
          dayHigh |-> Null, volume |-> Null, adjustedClose |-> Null,
          dividendAmount |-> Null, splitCoefficient |-> Null,
          weekLow |-> Null, weekHigh |-> Null, avgVolume |-> Null]
    ELSE LET latestData == Lookup(timeSeries, dates[Len(dates)])
             previousData == Lookup(timeSeries, dates[Len(dates) - 1])
             past52Weeks == Past52Weeks(timeSeries)
             sum == SumVolume(timeSeries, dates, volumeKey)
         IN [previousClose |-> RequiredField(previousData, "4. close"),
             openPrice |-> RequiredField(latestData, "1. open"),
             dayLow |-> RequiredField(latestData, "3. low"),
             dayHigh |-> RequiredField(latestData, "2. high"),
             volume |-> RequiredField(latestData, volumeKey),
             adjustedClose |-> OptionalField(latestData, "5. adjusted close"),
             dividendAmount |-> OptionalField(latestData, "7. dividend amount"),
             splitCoefficient |-> OptionalField(latestData, "8. split coefficient"),
             weekLow |-> IF Len(past52Weeks) > 0
                         THEN MinOf(FieldValues(timeSeries, past52Weeks, "3. low"))
                         ELSE Null,
             weekHigh |-> IF Len(past52Weeks) > 0
                          THEN MaxOf(FieldValues(timeSeries, past52Weeks, "2. high"))
                          ELSE Null,
             avgVolume |-> IF IsNum(sum) THEN Divide(sum.num, Len(dates)) ELSE NaN]

(***************************************************************************)
(* searchSymbol: the response is [fails, hasBestMatches, bestMatches];     *)
(* fails stands for a rejected fetch or an unparsable body, hasBestMatches *)
(* is false when the body has no such key (a notice payload).              *)
(***************************************************************************)
\* !searchData.bestMatches || searchData.bestMatches.length === 0
NoMatches(searchData) ==
    ~searchData.hasBestMatches \/ Len(searchData.bestMatches) = 0

\* a faulty resolution: the entry the provider ranks last
TopMatch_Last(bestMatches) == bestMatches[Len(bestMatches)]

\* searchData.bestMatches[0]
TopMatch(bestMatches) == bestMatches[1]

\* the outcome of searchSymbol: the pair {symbol, name} or the error thrown
searchSymbol(response) ==
    IF response.fails THEN [ok |-> FALSE, error |-> "TransportFailure"]
    ELSE IF NoMatches(response) THEN [ok |-> FALSE, error |-> "NoMatchFound"]
    ELSE [ok |-> TRUE, symbol |-> TopMatch(response.bestMatches).symbol,
          name |-> TopMatch(response.bestMatches).name]

(***************************************************************************)
(* fetchStockOverview: the response is [fails, data]; data is the body, an *)
(* object (a function of its keys) or Null.                                *)
(***************************************************************************)
EmptyObject == [k \in {} |-> Undefined]

\* !data || Object.keys(data).length === 0 ? {} : data
OverviewData(data) ==
    IF data = Null \/ DOMAIN data = {} THEN EmptyObject ELSE data

\* a rejected fetch or an unparsable body throws out of fetchStockOverview
OverviewThrows(response) == response.fails

\* overviewData[key] ? parseFloat(overviewData[key]) : null
OverviewNumber(overviewData, key) ==
    IF Truthy(Field(overviewData, key))
    THEN ParseFloat(Field(overviewData, key)) ELSE Null

\* overviewData['EarningsDate'] || null
OverviewText(overviewData, key) ==
    IF Truthy(Field(overviewData, key)) THEN Field(overviewData, key) ELSE Null

(***************************************************************************)
(* The series response is [fails, key, series]: one series container       *)
(* under the top-level key `key` (a notice payload has key "Information"   *)
(* and no series).                                                         *)
(***************************************************************************)
\* timeSeries = data[timeSeriesKey], where the body has that key
SeriesOf(response, timeSeriesKey) == response.series

\* a faulty check: the series is never found missing
SeriesMissing_Never(response, timeSeriesKey) == FALSE

\* !timeSeries throws: the body lacks the key (an object, even an empty one,
\* is truthy)
SeriesMissing(response, timeSeriesKey) == response.key # timeSeriesKey

(***************************************************************************)
(* The object fetchStockData returns, or the error its last statements     *)
(* throw: timeSeries[dates[dates.length - 1]]['4. close'] is a TypeError   *)
(* when dates is empty.                                                    *)
(***************************************************************************)
ReturnThrows(timeSeries, dates) ==
    LookupAt(timeSeries, At(dates, Len(dates))) = Undefined

StockData(symbol, name, params, timeSeries, dates, overviewData) ==
    LET volumeKey == VolumeKey(params.endpoint)
        stats == computeDetailedStats(timeSeries, dates, volumeKey)
    IN [symbol |-> symbol,
        name |-> name,
        latestDate |-> At(dates, Len(dates)),
        price |-> ParseFloat(Field(LookupAt(timeSeries, At(dates, Len(dates))),
                                   "4. close")),
        changePercent |-> calculatePercentageChange(timeSeries, dates),
        dates |-> dates,
        timeSeries |-> timeSeries,
        timeUnit |-> params.timeUnit,
        ticks |-> params.ticks,
        volumeKey |-> volumeKey,
        previousClose |-> stats.previousClose,
        openPrice |-> stats.openPrice,
        volume |-> stats.volume,
        dayLow |-> stats.dayLow,
        dayHigh |-> stats.dayHigh,
        weekLow |-> stats.weekLow,
        weekHigh |-> stats.weekHigh,
        avgVolume |-> stats.avgVolume,
        adjustedClose |-> stats.adjustedClose,
        dividendAmount |-> stats.dividendAmount,
        splitCoefficient |-> stats.splitCoefficient,
        beta |-> OverviewNumber(overviewData, "Beta"),
        peRatio |-> OverviewNumber(overviewData, "PERatio"),
        eps |-> OverviewNumber(overviewData, "EPS"),
        earningsDate |-> OverviewText(overviewData, "EarningsDate"),
        targetEst |-> OverviewNumber(overviewData, "AnalystTargetPrice"),
        marketCap |-> OverviewNumber(overviewData, "MarketCapitalization")]

(***************************************************************************)
(* Strings of the dialog: sequences of one-character strings.              *)
(***************************************************************************)
UpperChar(c) == CASE c = "a" -> "A" [] c = "b" -> "B" [] OTHER -> c

\* String.prototype.toUpperCase
ToUpperCase(s) == [i \in 1..Len(s) |-> UpperChar(s[i])]

RECURSIVE TrimStart(_)
TrimStart(s) == IF s # <<>> /\ Head(s) = " " THEN TrimStart(Tail(s)) ELSE s

\* a faulty trim: the input as typed
Trim_Nothing(s) == s

\* String.prototype.trim
Trim(s) == Reverse(TrimStart(Reverse(TrimStart(s))))

(***************************************************************************)
(* The upstream's responses and the user's inputs, drawn from small sets.  *)
(***************************************************************************)
SymA == <<"A">>
SymB == <<"B">>

MatchOf(symbol) ==
    [symbol |-> symbol, name |-> IF symbol = SymA THEN "Alpha Inc." ELSE "Beta Corp."]

\* search responses: a failed transport, a body without bestMatches, ranked lists
SearchResponses ==
    {[fails |-> TRUE, hasBestMatches |-> FALSE, bestMatches |-> <<>>],
     [fails |-> FALSE, hasBestMatches |-> FALSE, bestMatches |-> <<>>]}
    \cup {[fails |-> FALSE, hasBestMatches |-> TRUE, bestMatches |-> m] :
            m \in {<<>>, <<MatchOf(SymA)>>, <<MatchOf(SymB)>>,
                   <<MatchOf(SymA), MatchOf(SymB)>>,
                   <<MatchOf(SymB), MatchOf(SymA)>>}}

\* the search responses of the dashboard runs
UISearchResponses ==
    {[fails |-> FALSE, hasBestMatches |-> TRUE, bestMatches |-> m] :
        m \in {<<>>, <<MatchOf(SymA)>>, <<MatchOf(SymB)>>}}

\* the six series-container keys (the intraday key once per interval in use)
ContainerKeys ==
    {"Time Series (15min)", "Time Series (60min)", "Time Series (Daily)",
     "Weekly Time Series", "Weekly Adjusted Time Series",
     "Monthly Time Series", "Monthly Adjusted Time Series"}

AdjustedKeys ==
    {"Time Series (Daily)", "Weekly Adjusted Time Series",
     "Monthly Adjusted Time Series"}

\* the texts of the point dated d: prices around 100, in the shape of the container
PointData(d, key) ==
    LET p == 100 + (d % 7)
        base == [f \in {"1. open", "2. high", "3. low", "4. close"} |->
                   CASE f = "1. open" -> Txt(p)
                     [] f = "2. high" -> Txt(p + 2)
                     [] f = "3. low" -> Txt(p - 2)
                     [] f = "4. close" -> Txt(p + 1)]
    IN IF key \in AdjustedKeys
       THEN base @@ [f \in {"5. adjusted close", "6. volume", "7. dividend amount",
                            "8. split coefficient"} |->
                       CASE f = "5. adjusted close" -> Txt(p)
                         [] f = "6. volume" -> Txt(1000 + (d % 3))
                         [] f = "7. dividend amount" -> Txt(0)
                         [] f = "8. split coefficient" -> Txt(1)]
       ELSE base @@ [f \in {"5. volume"} |-> Txt(1000 + (d % 3))]

\* the series object whose keys are `dates`, in that order
MkSeries(dates, key) ==
    [i \in 1..Len(dates) |-> [date |-> dates[i], data |-> PointData(dates[i], key)]]

\* ages (hours before now) on both sides of every cutoff
Ages == {1, 30, 200, 2000, 50000}

\* sequences of distinct ages, in any order, of length at most n
RECURSIVE AgeSeqs(_)
AgeSeqs(n) ==
    IF n = 0 THEN {<<>>}
    ELSE LET shorter == AgeSeqs(n - 1)
         IN shorter \cup
            UNION {{Append(s, a) : a \in Ages \ {s[i] : i \in 1..Len(s)}} :
                     s \in {t \in shorter : Len(t) = n - 1}}

\* a newest-first series of n hourly points, the newest `age` hours old
HourlyAges(n, age) == [i \in 1..n |-> age + i - 1]

\* the lengths around the 1D lookback, and the age of their newest point
LongLengths == {FallbackCount - 1, FallbackCount, FallbackCount + 1}

DatesOf(ages, now) == [i \in 1..Len(ages) |-> now - ages[i]]

\* the raw date lists of the pipeline runs
RawDates(now) ==
    {DatesOf(s, now) : s \in AgeSeqs(MaxLen)}
    \cup {DatesOf(HourlyAges(n, 30), now) : n \in LongLengths}

NoticeResponse == [fails |-> FALSE, key |-> "Information", series |-> <<>>]

SeriesFailure == [fails |-> TRUE, key |-> "", series |-> <<>>]

\* the point dated d with the given close, high and low
PricedPoint(d, key, close, high, low) ==
    [date |-> d,
     data |-> [PointData(d, key) EXCEPT !["4. close"] = Txt(close),
                                        !["2. high"] = Txt(high),
                                        !["3. low"] = Txt(low)]]

\* three recent points, newest first: closes 100, 110, 90 in chronological
\* order with highs 105, 115, 95 and lows 95, 105, 85
QuotedSeries(now, key) ==
    <<PricedPoint(now - 1, key, 90, 95, 85),
      PricedPoint(now - 2, key, 110, 115, 105),
      PricedPoint(now - 3, key, 100, 105, 95)>>

\* what the upstream can do to a field of a point: leave it out, send the
\* empty string, send a text that is no number
Defects == {"missing", "empty", "unparsable"}

Damaged(data, field, defect) ==
    CASE defect = "missing" -> [f \in DOMAIN data \ {field} |-> data[f]]
      [] defect = "empty" -> [data EXCEPT ![field] = EmptyTxt]
      [] defect = "unparsable" -> [data EXCEPT ![field] = BadTxt]

\* the price and volume fields of a point of the container
SourceFields(key) ==
    {"1. open", "2. high", "3. low", "4. close",
     IF key \in AdjustedKeys THEN "6. volume" ELSE "5. volume"}

\* the quoted series with one field of one point damaged
DamagedSeries(now, key) ==
    {[QuotedSeries(now, key) EXCEPT ![i].data = Damaged(@, field, defect)] :
        i \in 1..3, field \in SourceFields(key), defect \in Defects}

\* the lengths around the 52-week range
YearLengths == {WeekRangeCount - 1, WeekRangeCount, WeekRangeCount + 1}

\* n hourly points, newest first; the newest has the lowest low and the
\* oldest the highest high of the series
LongSeries(n, now, key) ==
    [i \in 1..n |->
        IF i = 1 THEN PricedPoint(now - 1, key, 60, 65, 50)
        ELSE IF i = n THEN PricedPoint(now - n, key, 490, 500, 480)
        ELSE [date |-> now - i, data |-> PointData(now - i, key)]]

\* the containers the quoted, damaged and long series come in
FixtureKeys == {"Time Series (60min)", "Time Series (Daily)"}

SeriesFixtures(now, key) ==
    {QuotedSeries(now, key)} \cup DamagedSeries(now, key)
    \cup {LongSeries(n, now, key) : n \in YearLengths}

SeriesResponses(now) ==
    {SeriesFailure, NoticeResponse}
    \cup {[fails |-> FALSE, key |-> k, series |-> MkSeries(ds, k)] :
            k \in ContainerKeys, ds \in RawDates(now)}
    \cup UNION {{[fails |-> FALSE, key |-> k, series |-> series] :
                    series \in SeriesFixtures(now, k)} : k \in FixtureKeys}

\* the series responses of the dashboard runs: a notice, a recent two-point
\* series at either interval, an hourly series whose only point is old
UISeriesResponses(now) ==
    {NoticeResponse,
     [fails |-> FALSE, key |-> "Time Series (15min)",
      series |-> MkSeries(DatesOf(<<1, 30>>, now), "Time Series (15min)")],
     [fails |-> FALSE, key |-> "Time Series (60min)",
      series |-> MkSeries(DatesOf(<<1, 30>>, now), "Time Series (60min)")],
     [fails |-> FALSE, key |-> "Time Series (60min)",
      series |-> MkSeries(DatesOf(<<2000>>, now), "Time Series (60min)")]}

FullOverview ==
    [f \in {"PERatio", "MarketCapitalization", "Beta", "EPS", "EarningsDate",
            "AnalystTargetPrice"} |->
       CASE f = "PERatio" -> Txt(30)
         [] f = "MarketCapitalization" -> Txt(3000000)
         [] f = "Beta" -> Txt(1)
         [] f = "EPS" -> BadTxt
         [] f = "EarningsDate" -> EmptyTxt
         [] f = "AnalystTargetPrice" -> Txt(200)]

\* overview responses: a failed transport, null, {}, a notice, a record
OverviewResponses ==
    {[fails |-> TRUE, data |-> Null],
     [fails |-> FALSE, data |-> Null],
     [fails |-> FALSE, data |-> EmptyObject],
     [fails |-> FALSE, data |-> [f \in {"Information"} |-> BadTxt]],
     [fails |-> FALSE, data |-> FullOverview]}

UIOverviewResponses ==
    {[fails |-> TRUE, data |-> Null],
     [fails |-> FALSE, data |-> EmptyObject]}

\* the labels the user clicks, and the labels fetchStockData is called with
ClickedTimeFrames == {"1D", "5D"}
CalledTimeFrames == TimeFrames \cup {"2W"}

\* what the user types into the dialog
TypedInputs == {<<" ">>, <<" ", "b">>}

\* instants early in a year and in the middle of one
Nows == {20 * HoursPerYear + 100, 20 * HoursPerYear + 5000}

\* the instant of the dashboard runs
DashboardNows == {20 * HoursPerYear + 5000}

(***************************************************************************)
(* State.                                                                  *)
(*   stockSymbols .. isLoading   the useState cells of App                 *)
(*   reqs                        the fetchStockData calls started so far,  *)
(*                               each with the position of its async body  *)
(*   now                         the clock new Date() reads                *)
(*   displayedReq                history: the call whose result            *)
(*                               selectedStock holds (0: none)             *)
(*   alertMessage                the kind of message the last step passed  *)
(*                               to alert() ("": it raised no alert)       *)
(***************************************************************************)
VARIABLES stockSymbols, selectedStock, timeFrame, isDialogOpen, currentSlot,
          stockInput, isLoading, reqs, now, displayedReq, alertMessage

vars == <<stockSymbols, selectedStock, timeFrame, isDialogOpen, currentSlot,
          stockInput, isLoading, reqs, now, displayedReq, alertMessage>>

Slots == 0..(NUM_STOCKS - 1)

\* the slots the user works with: the first and the last of the grid
UsedSlots == {0, NUM_STOCKS - 1}

Pending(r) == r.outcome = "pending"

\* the calls whose promise has not settled
InFlight == {i \in 1..Len(reqs) : Pending(reqs[i])}

\* a call of handleStockClick or fetchSelectedStockData has not settled
DetailInFlight == \E i \in InFlight : reqs[i].kind \in {"click", "timeframe"}

(***************************************************************************)
(* fetchStockData, one await at a time.  A call is a record: its caller    *)
(* (kind, slot), its arguments (query, timeFrame), the position of its     *)
(* body (pc), its locals, the responses it received (of the series         *)
(* response its transport outcome and top-level key), the network events   *)
(* it produced (log), how its promise settled (outcome, result), and the   *)
(* history flag overlaps: it started while a call for the detail view was  *)
(* in flight.                                                              *)
(***************************************************************************)
\* the body up to the first await: searchSymbol issues the search request
StartCall(kind, query, tf, slot, overlaps) ==
    [kind |-> kind, query |-> query, timeFrame |-> tf, slot |-> slot,
     pc |-> "search", log |-> <<"call:search">>,
     searchResponse |-> Null, seriesResponse |-> Null, overviewResponse |-> Null,
     symbol |-> <<>>, name |-> "", params |-> Null,
     timeSeries |-> <<>>, dates |-> <<>>,
     outcome |-> "pending", result |-> Null, overlaps |-> overlaps]

\* a faulty catch block: it searches again (twice at most) before it gives up
Throw_Retry(r, error) ==
    IF Len(r.log) <= 6
    THEN [r EXCEPT !.pc = "search", !.log = Append(@, "call:search")]
    ELSE [r EXCEPT !.pc = "done", !.outcome = error, !.log = Append(@, "throw")]

\* the catch block of fetchStockData rethrows: the promise rejects
Throw(r, error) ==
    [r EXCEPT !.pc = "done", !.outcome = error, !.log = Append(@, "throw")]

\* the return statement: the promise fulfils
Return(r, stockData) ==
    [r EXCEPT !.pc = "done", !.outcome = "ok", !.result = stockData,
              !.log = Append(@, "return")]

\* a network request goes out
Request(r, what, pc) == [r EXCEPT !.pc = pc, !.log = Append(@, what)]

\* from the search response to the series request
AfterSearch(r, response, clock) ==
    LET got == [r EXCEPT !.searchResponse = response,
                         !.log = Append(@, "resp:search")]
        found == searchSymbol(response)
    IN IF ~found.ok THEN Throw(got, found.error)
       ELSE IF ~ValidTimeFrame(r.timeFrame) THEN Throw(got, "InvalidTimeframe")
       ELSE Request([got EXCEPT !.symbol = found.symbol, !.name = found.name,
                                !.params = getTimeFrameParams(r.timeFrame, clock)],
                    "call:series", "series")

\* from the series response to the overview request
AfterSeries(r, response, clock) ==
    LET got == [r EXCEPT !.seriesResponse = [fails |-> response.fails,
                                             key |-> response.key],
                         !.log = Append(@, "resp:series")]
        timeSeriesKey == timeSeriesKeyMap(r.params.endpoint, r.params.interval)
        timeSeries == SeriesOf(response, timeSeriesKey)
    IN IF response.fails THEN Throw(got, "TransportFailure")
       ELSE IF SeriesMissing(response, timeSeriesKey)
            THEN Throw(got, "SeriesUnavailable")
       ELSE Request([got EXCEPT !.timeSeries = timeSeries,
                                !.dates = Window(r.timeFrame, Keys(timeSeries), clock)],
                    "call:overview", "overview")

\* from the overview response to the end of the body
AfterOverview(r, response) ==
    LET got == [r EXCEPT !.overviewResponse = response,
                         !.log = Append(@, "resp:overview")]
    IN IF OverviewThrows(response) THEN Throw(got, "TransportFailure")
       ELSE IF ReturnThrows(r.timeSeries, r.dates) THEN Throw(got, "TypeError")
       ELSE Return(got, StockData(r.symbol, r.name, r.params, r.timeSeries,
                                  r.dates, OverviewData(response.data)))

(***************************************************************************)
(* The continuations of the callers, run when the promise settles.         *)
(***************************************************************************)
\* handleStockClick and fetchSelectedStockData
Detail(r) == r.kind \in {"click", "timeframe"}

\* a faulty continuation: setSelectedStock in the catch branch as well
SelectedAfter_OnSettle(r, selected) ==
    IF Detail(r) /\ ~Pending(r) THEN r.result ELSE selected

\* setSelectedStock(stockData) in the then branch only
SelectedAfter(r, selected) ==
    IF Detail(r) /\ r.outcome = "ok" THEN r.result ELSE selected

\* setIsLoading(false) in both branches
LoadingAfter(r, loading) ==
    IF Detail(r) /\ ~Pending(r) THEN FALSE ELSE loading

\* a faulty test: any snapshot is accepted, whatever symbol it is for
Accepted_AnySymbol(r) == r.kind = "add" /\ r.outcome = "ok"

\* stockData && stockData.symbol === inputSymbol
Accepted(r) == r.kind = "add" /\ r.outcome = "ok" /\ r.result.symbol = r.query

\* a faulty updater: the stock is written into an empty array, not into prev
SlotsAfter_Overwrite(r, prev) ==
    IF Accepted(r)
    THEN [index \in DOMAIN prev |-> IF index = r.slot.num THEN r.result ELSE Null]
    ELSE prev

\* a faulty updater: the stock is pushed behind the last slot
SlotsAfter_Push(r, prev) ==
    IF Accepted(r)
    THEN [index \in (DOMAIN prev) \cup {NUM_STOCKS} |->
            IF index = NUM_STOCKS THEN r.result ELSE prev[index]]
    ELSE prev

\* setStockSymbols((prev) => { updatedSymbols[currentSlot] = stockData; ... })
SlotsAfter(r, prev) ==
    IF Accepted(r) THEN [prev EXCEPT ![r.slot.num] = r.result] ELSE prev

\* what is kept of a call: all of it while it runs, and of a direct call; of a
\* finished call of the dashboard its caller, whether it returned or threw and
\* whether it started while a call for the detail view was in flight, and of
\* a call for the detail view the object it returned (its arguments and
\* locals are gone)
Kept(r) ==
    IF Pending(r) \/ r.kind = "call" THEN r
    ELSE [StartCall(r.kind, <<>>, "", Null, r.overlaps)
            EXCEPT !.pc = "done", !.log = <<>>,
                   !.outcome = IF r.outcome = "ok" THEN "ok" ELSE "failed",
                   !.result = IF Detail(r) THEN r.result ELSE Null]

\* the alert of the continuation: the catch branches alert the error, the
\* dialog alerts a result it does not accept; a direct call has no
\* continuation
AlertAfter(r) ==
    IF Pending(r) \/ r.kind = "call" \/ Accepted(r) THEN ""
    ELSE IF r.outcome # "ok" THEN "error.message"
    ELSE IF r.kind = "add" THEN "No data found for the provided stock symbol."
    ELSE ""

\* the state of App after call id moved to r
Settle(id, r) ==
    /\ alertMessage' = AlertAfter(r)
    /\ reqs' = [reqs EXCEPT ![id] = Kept(r)]
    /\ selectedStock' = SelectedAfter(r, selectedStock)
    /\ displayedReq' = IF Detail(r) /\ r.outcome = "ok" THEN id ELSE displayedReq
    /\ isLoading' = LoadingAfter(r, isLoading)
    /\ stockSymbols' = SlotsAfter(r, stockSymbols)
    /\ isDialogOpen' = IF Accepted(r) THEN FALSE ELSE isDialogOpen
    /\ stockInput' = IF Accepted(r) THEN <<>> ELSE stockInput
    /\ UNCHANGED <<timeFrame, currentSlot, now>>

\* the awaited response arrives: one of `responses`
SearchResponse(id, responses) ==
    /\ id \in 1..Len(reqs)
    /\ reqs[id].pc = "search"
    /\ \E response \in responses :
          Settle(id, AfterSearch(reqs[id], response, now))

SeriesResponse(id, responses) ==
    /\ id \in 1..Len(reqs)
    /\ reqs[id].pc = "series"
    /\ \E response \in responses :
          Settle(id, AfterSeries(reqs[id], response, now))

OverviewResponse(id, responses) ==
    /\ id \in 1..Len(reqs)
    /\ reqs[id].pc = "overview"
    /\ \E response \in responses :
          Settle(id, AfterOverview(reqs[id], response))

(***************************************************************************)
(* The handlers of the dashboard.  The grid is rendered while              *)
(* selectedStock is null, the detail view otherwise; the detail view       *)
(* shows its timeframe buttons only while isLoading is false.              *)
(***************************************************************************)
GridShown == selectedStock = Null

\* a new fetchStockData call can be started (the bound on the calls of a run)
CanStart == Len(reqs) < MaxRequests

openAddOrReplaceModal(slotId) ==
    /\ alertMessage' = ""
    /\ GridShown
    /\ slotId \in UsedSlots
    /\ currentSlot' = Num(slotId)
    /\ isDialogOpen' = TRUE
    /\ stockInput' = <<>>
    /\ UNCHANGED <<stockSymbols, selectedStock, timeFrame, isLoading,
                   reqs, now, displayedReq>>

closeAddModal ==
    /\ alertMessage' = ""
    /\ isDialogOpen
    /\ isDialogOpen' = FALSE
    /\ stockInput' = <<>>
    /\ UNCHANGED <<stockSymbols, selectedStock, timeFrame, currentSlot, isLoading,
                   reqs, now, displayedReq>>

handleStockInputChange(value) ==
    /\ alertMessage' = ""
    /\ isDialogOpen
    /\ stockInput' = SliceFirst(ToUpperCase(value), MAX_STOCK_SYMBOL_LENGTH)
    /\ UNCHANGED <<stockSymbols, selectedStock, timeFrame, isDialogOpen,
                   currentSlot, isLoading, reqs, now, displayedReq>>

\* stockSymbols.some((stock, index) => stock && stock.symbol === inputSymbol
\*                                     && index !== currentSlot)
DuplicateElsewhere(slots, inputSymbol, slot) ==
    \E index \in Slots :
        /\ slots[index] # Null
        /\ slots[index].symbol = inputSymbol
        /\ Num(index) # slot

\* the submit of the dialog, up to the await
addOrReplaceStock ==
    /\ isDialogOpen
    /\ LET inputSymbol == ToUpperCase(Trim(stockInput))
       IN IF inputSymbol = <<>>
          THEN /\ alertMessage' = "Please enter a valid stock symbol."
               /\ UNCHANGED <<isDialogOpen, stockInput, reqs>>
          ELSE IF DuplicateElsewhere(stockSymbols, inputSymbol, currentSlot)
          THEN /\ alertMessage' = "Duplicate stock symbol in another slot."
               /\ isDialogOpen' = FALSE
               /\ stockInput' = <<>>
               /\ UNCHANGED reqs
          ELSE /\ CanStart
               /\ alertMessage' = ""
               /\ reqs' = Append(reqs, StartCall("add", inputSymbol, timeFrame,
                                                 currentSlot, DetailInFlight))
               /\ UNCHANGED <<isDialogOpen, stockInput>>
    /\ UNCHANGED <<stockSymbols, selectedStock, timeFrame, currentSlot, isLoading,
                   now, displayedReq>>

handleRemoveStock(slotId) ==
    /\ alertMessage' = ""
    /\ GridShown
    /\ slotId \in UsedSlots
    /\ stockSymbols[slotId] # Null
    /\ stockSymbols' = [stockSymbols EXCEPT ![slotId] = Null]
    /\ UNCHANGED <<selectedStock, timeFrame, isDialogOpen, currentSlot, stockInput,
                   isLoading, reqs, now, displayedReq>>

showStocksGrid ==
    /\ alertMessage' = ""
    /\ selectedStock # Null
    /\ selectedStock' = Null
    /\ displayedReq' = 0
    /\ UNCHANGED <<stockSymbols, timeFrame, isDialogOpen, currentSlot, stockInput,
                   isLoading, reqs, now>>

\* the click on a filled slot of the grid, up to the await
handleStockClick(slotId) ==
    /\ alertMessage' = ""
    /\ GridShown
    /\ slotId \in UsedSlots
    /\ stockSymbols[slotId] # Null
    /\ CanStart
    /\ isLoading' = TRUE
    /\ reqs' = Append(reqs, StartCall("click", stockSymbols[slotId].symbol,
                                      timeFrame, Null, DetailInFlight))
    /\ UNCHANGED <<stockSymbols, selectedStock, timeFrame, isDialogOpen,
                   currentSlot, stockInput, now, displayedReq>>

\* handleTimeFrameClick, and the effect on [timeFrame] that calls
\* fetchSelectedStockData with the selectedStock of that render
handleTimeFrameClick(period) ==
    /\ alertMessage' = ""
    /\ selectedStock # Null
    /\ ~isLoading
    /\ period # timeFrame
    /\ CanStart
    /\ timeFrame' = period
    /\ isLoading' = TRUE
    /\ reqs' = Append(reqs, StartCall("timeframe", selectedStock.symbol, period,
                                      Null, DetailInFlight))
    /\ UNCHANGED <<stockSymbols, selectedStock, isDialogOpen, currentSlot,
                   stockInput, now, displayedReq>>

\* a direct call of fetchStockData({query, timeFrame})
callFetchStockData(query, tf) ==
    /\ alertMessage' = ""
    /\ reqs = <<>>
    /\ reqs' = <<StartCall("call", query, tf, Null, FALSE)>>
    /\ UNCHANGED <<stockSymbols, selectedStock, timeFrame, isDialogOpen,
                   currentSlot, stockInput, isLoading, now, displayedReq>>

(***************************************************************************)
(* loadStoredStocks: the updater of the mount effect.                      *)
(***************************************************************************)
loadStoredStocks(prev, parsedStocks) ==
    [index \in Slots |->
        IF index + 1 <= Len(SliceFirst(parsedStocks, NUM_STOCKS))
        THEN parsedStocks[index + 1] ELSE prev[index]]

\* a stock saved by an earlier session: the 1D result for a recent series
StoredStock(symbol, clock) ==
    StockData(symbol, MatchOf(symbol).name, getTimeFrameParams("1D", clock),
              MkSeries(DatesOf(<<1, 2>>, clock), "Time Series (15min)"),
              DatesOf(<<2, 1>>, clock), EmptyObject)

\* what localStorage holds when the page loads
StoredLists(clock) ==
    {<<StoredStock(SymA, clock)>>}

Mounted(parsedStocks) ==
    /\ stockSymbols = loadStoredStocks([index \in Slots |-> Null], parsedStocks)
    /\ selectedStock = Null
    /\ timeFrame = "1D"
    /\ isDialogOpen = FALSE
    /\ currentSlot = Null
    /\ stockInput = <<>>
    /\ isLoading = FALSE
    /\ reqs = <<>>
    /\ displayedReq = 0
    /\ alertMessage = ""

Init ==
    /\ now \in DashboardNows
    /\ \E parsedStocks \in StoredLists(now) : Mounted(parsedStocks)

Next ==
    \/ \E slotId \in UsedSlots : openAddOrReplaceModal(slotId)
    \/ closeAddModal
    \/ \E value \in TypedInputs : handleStockInputChange(value)
    \/ addOrReplaceStock
    \/ \E slotId \in UsedSlots : handleRemoveStock(slotId)
    \/ showStocksGrid
    \/ \E slotId \in UsedSlots : handleStockClick(slotId)
    \/ \E period \in ClickedTimeFrames : handleTimeFrameClick(period)
    \/ \E id \in InFlight : SearchResponse(id, UISearchResponses)
    \/ \E id \in InFlight : SeriesResponse(id, UISeriesResponses(now))
    \/ \E id \in InFlight : OverviewResponse(id, UIOverviewResponses)

Spec == Init /\ [][Next]_vars

(***************************************************************************)
(* The pipeline alone: one call of fetchStockData with any query and any   *)
(* label, and every response of the upstream.                              *)
(***************************************************************************)
InitEngine ==
    /\ now \in Nows
    /\ Mounted(<<>>)

NextEngine ==
    \/ \E query \in {SymA}, tf \in CalledTimeFrames : callFetchStockData(query, tf)
    \/ SearchResponse(1, SearchResponses)
    \/ SeriesResponse(1, SeriesResponses(now))
    \/ OverviewResponse(1, OverviewResponses)

SpecEngine == InitEngine /\ [][NextEngine]_vars

(***************************************************************************)
(* Properties.  Traced calls are the calls whose arguments, locals and     *)
(* network events are still in the state.                                  *)
(***************************************************************************)
Traced == {i \in 1..Len(reqs) : Pending(reqs[i]) \/ reqs[i].kind = "call"}

DetailCalls == {i \in 1..Len(reqs) : Detail(reqs[i])}

NetworkCalls == {"call:search", "call:series", "call:overview"}

Issued(r, what) == \E k \in 1..Len(r.log) : r.log[k] = what

NonDecreasing(s) == \A k \in 1..(Len(s) - 1) : s[k] <= s[k + 1]

Increasing(s) == \A k \in 1..(Len(s) - 1) : s[k] < s[k + 1]

NewestFirst(s) == \A k \in 1..(Len(s) - 1) : s[k] > s[k + 1]

Elements(s) == {s[k] : k \in 1..Len(s)}

\* C1: when the detail call issued last was issued while an earlier detail
\* call was in flight, then once every detail call has completed and the
\* last one returned a snapshot, the snapshot on display (selectedStock,
\* while the detail view is shown) is the one the last call returned, in
\* whatever order the responses arrived.
C1_LastIssuedWins ==
    \A last \in DetailCalls :
        ( /\ \A i \in DetailCalls : i <= last /\ ~Pending(reqs[i])
          /\ reqs[last].overlaps
          /\ reqs[last].outcome = "ok"
          /\ selectedStock # Null )
        => selectedStock = reqs[last].result

\* C2: a step of a call that does not return a snapshot (a step between two
\* awaits, or the step in which the call fails at whatever stage) leaves
\* selectedStock and stockSymbols exactly as they were.
C2_FailedCallWritesNothing ==
    [][\A id \in 1..Len(reqs) :
          ( /\ Pending(reqs[id])
            /\ reqs'[id] # reqs[id]
            /\ reqs'[id].outcome # "ok" )
          => /\ selectedStock' = selectedStock
             /\ stockSymbols' = stockSymbols]_vars

\* a timeframe change failed while a snapshot was on display, and a stock
\* is stored in a slot
C2_Witness ==
    /\ selectedStock # Null
    /\ \E index \in Slots : stockSymbols[index] # Null
    /\ \E i \in 1..Len(reqs) :
          reqs[i].kind = "timeframe" /\ reqs[i].outcome = "failed"

\* C3: for every label, a raw series with at least one point gives a
\* non-empty window (by the fallback when the cutoff keeps nothing), and a
\* call fails on an empty window only when the raw series has no point.
C3_FallbackForEveryLabel ==
    \A i \in Traced :
        LET r == reqs[i]
        IN /\ (r.pc \in {"overview", "done"} /\ Len(r.timeSeries) > 0)
                => Len(r.dates) > 0
           /\ r.outcome = "TypeError" => Len(r.timeSeries) = 0

\* C4: for 1D and a raw series of n > 0 points, newest first, none of them
\* within the last 24 hours, the window is the min(96, n) most recent raw
\* points in chronological order, and the snapshot returned carries it.
C4_LookbackWindow ==
    \A i \in Traced :
        LET r == reqs[i]
            raw == Keys(r.timeSeries)
            n == Len(raw)
        IN ( /\ r.timeFrame = "1D"
             /\ r.pc \in {"overview", "done"}
             /\ n > 0
             /\ NewestFirst(raw)
             /\ \A k \in 1..n : raw[k] < now - HoursPerDay )
           => /\ Len(r.dates) = Min(FallbackCount, n)
              /\ Increasing(r.dates)
              /\ Elements(r.dates) \subseteq Elements(raw)
              /\ \A d \in Elements(raw) \ Elements(r.dates) :
                    \A e \in Elements(r.dates) : d < e
              /\ r.outcome = "ok" =>
                    r.result.dates = r.dates /\ Len(r.result.dates) > 0

\* a 1D call returned the 96 most recent of 97 stale points
C4_Witness ==
    \E i \in Traced :
        /\ reqs[i].timeFrame = "1D"
        /\ Len(reqs[i].timeSeries) = FallbackCount + 1
        /\ \A k \in 1..Len(reqs[i].timeSeries) :
              reqs[i].timeSeries[k].date < now - HoursPerDay
        /\ reqs[i].outcome = "ok"
        /\ Len(reqs[i].result.dates) = FallbackCount

\* C5: a call with a label outside the eight labels makes no network call
\* (search, series or overview) and fails with the invalid-timeframe error.
C5_InvalidLabelNoNetwork ==
    \A i \in Traced :
        LET r == reqs[i]
        IN ~ValidTimeFrame(r.timeFrame)
           => /\ \A what \in NetworkCalls : ~Issued(r, what)
              /\ ~Pending(r) => r.outcome = "InvalidTimeframe"

\* the network events of a call that runs to the end, in order
FullTrace ==
    <<"call:search", "resp:search", "call:series", "resp:series",
      "call:overview", "resp:overview">>

\* C6: the network events of a call are a prefix of search request, search
\* response, series request, series response, overview request, overview
\* response, followed by nothing but the settling of the promise: each
\* request goes out at most once, the series request only after the search
\* response, the overview request only after the series response, and no
\* request goes out after a failure.
C6_SequentialNoRetry ==
    \A i \in Traced :
        LET r == reqs[i]
        IN \E k \in 1..Len(FullTrace) :
              /\ k <= Len(r.log)
              /\ SubSeq(r.log, 1, k) = SubSeq(FullTrace, 1, k)
              /\ \/ Len(r.log) = k /\ Pending(r) /\ k % 2 = 1
                 \/ /\ Len(r.log) = k + 1
                    /\ ~Pending(r)
                    /\ k % 2 = 0
                    /\ r.log[k + 1] = IF r.outcome = "ok" THEN "return" ELSE "throw"
                    /\ r.outcome = "ok" => k = Len(FullTrace)

\* a call failed at the series stage and issued nothing afterwards
C6_Witness ==
    \E i \in Traced :
        /\ reqs[i].outcome = "TransportFailure"
        /\ reqs[i].log = <<"call:search", "resp:search", "call:series",
                           "resp:series", "throw">>

\* C7: the symbol and name of a call are those of the first entry of the
\* bestMatches list of the search response; a search response without
\* bestMatches, or with an empty list, fails the call with the no-match
\* error and neither the series nor the overview request goes out.
C7_FirstMatchOrNoMatch ==
    \A i \in Traced :
        LET r == reqs[i]
            searchData == r.searchResponse
        IN (searchData # Null /\ ~searchData.fails)
           => IF ~searchData.hasBestMatches \/ searchData.bestMatches = <<>>
              THEN /\ r.outcome = "NoMatchFound"
                   /\ ~Issued(r, "call:series")
                   /\ ~Issued(r, "call:overview")
              ELSE ValidTimeFrame(r.timeFrame)
                   => /\ r.symbol = searchData.bestMatches[1].symbol
                      /\ r.name = searchData.bestMatches[1].name
                      /\ r.outcome = "ok"
                           => /\ r.result.symbol = searchData.bestMatches[1].symbol
                              /\ r.result.name = searchData.bestMatches[1].name

\* a call returned the snapshot of the first of two ranked matches
C7_Witness ==
    \E i \in Traced :
        /\ reqs[i].searchResponse # Null
        /\ reqs[i].searchResponse.bestMatches = <<MatchOf(SymB), MatchOf(SymA)>>
        /\ reqs[i].outcome = "ok"
        /\ reqs[i].result.symbol = SymB

\* C8: a series response that arrived without the top-level key of the
\* chosen endpoint fails the call with the series-unavailable error: no
\* window is computed, the overview request does not go out and no
\* snapshot is returned.
C8_MissingSeriesKey ==
    \A i \in Traced :
        LET r == reqs[i]
        IN ( /\ r.seriesResponse # Null
             /\ ~r.seriesResponse.fails
             /\ r.seriesResponse.key
                  # timeSeriesKeyMap(r.params.endpoint, r.params.interval) )
           => /\ r.outcome = "SeriesUnavailable"
              /\ r.timeSeries = <<>>
              /\ r.dates = <<>>
              /\ ~Issued(r, "call:overview")
              /\ r.result = Null

\* a call received a series container of another granularity than its
\* endpoint's
C8_Witness ==
    \E i \in Traced :
        /\ reqs[i].seriesResponse # Null
        /\ reqs[i].seriesResponse.key \in ContainerKeys
        /\ reqs[i].seriesResponse.key
             # timeSeriesKeyMap(reqs[i].params.endpoint, reqs[i].params.interval)
        /\ reqs[i].outcome = "SeriesUnavailable"

OverviewFields == {"peRatio", "marketCap", "beta", "eps", "earningsDate", "targetEst"}

\* C9: once the overview response arrived for a call whose window is not
\* empty, the call returned a snapshot; when the overview failed (a
\* transport or parse failure, an empty or null payload) the six overview
\* fields of the snapshot are null.
C9_OverviewFailureNonFatal ==
    \A i \in Traced :
        LET r == reqs[i]
        IN (r.overviewResponse # Null /\ Len(r.dates) > 0)
           => /\ r.outcome = "ok"
              /\ ( \/ r.overviewResponse.fails
                   \/ OverviewData(r.overviewResponse.data) = EmptyObject )
                 => \A f \in OverviewFields : r.result[f] = Null

\* C10: the dates of every snapshot returned are in chronological order
\* (non-decreasing), whatever the order of the points in the payload.
C10_ChronologicalDates ==
    \A i \in Traced :
        reqs[i].outcome = "ok" => NonDecreasing(reqs[i].result.dates)

\* the calls that returned a snapshot
Returned == {i \in Traced : reqs[i].outcome = "ok"}

\* the parsed close of the point dated `date`
CloseAt(timeSeries, date) == ParseFloat(Field(Lookup(timeSeries, date), "4. close"))

\* v is the number n / d
IsRatio(v, n, d) ==
    \/ "num" \in DOMAIN v /\ v.num * d = n
    \/ "quot" \in DOMAIN v /\ v.quot * d = n * v.by

\* C11: the changePercent of a snapshot whose window has at least two
\* points, with numeric closes at both ends and a first close other than 0,
\* is (lastClose - firstClose) / firstClose * 100 for the closes of the
\* first and the last point of the snapshot's dates: points of the raw
\* series outside the window play no part.
C11_ChangeFromWindowEnds ==
    \A i \in Returned :
        LET r == reqs[i]
            dates == r.result.dates
            firstClose == CloseAt(r.timeSeries, dates[1])
            lastClose == CloseAt(r.timeSeries, dates[Len(dates)])
        IN ( /\ Len(dates) >= 2
             /\ IsNum(firstClose) /\ IsNum(lastClose)
             /\ firstClose.num # 0 )
           => IsRatio(r.result.changePercent,
                      (lastClose.num - firstClose.num) * 100, firstClose.num)

\* a snapshot whose window leaves out the oldest raw point, and that point
\* closed at another price than the first point of the window
C11_Witness ==
    \E i \in Returned :
        LET r == reqs[i]
            oldest == r.timeSeries[Len(r.timeSeries)]
        IN /\ Len(r.result.dates) >= 2
           /\ Len(r.timeSeries) > Len(r.result.dates)
           /\ oldest.date < r.result.dates[1]
           /\ r.result.changePercent # Num(0)
           /\ ParseFloat(Field(oldest.data, "4. close"))
                 # CloseAt(r.timeSeries, r.result.dates[1])

\* C12: the changePercent of a snapshot is never NaN, and it is 0 when the
\* window has fewer than two points or the close of its first or of its
\* last point is missing or is no number.
C12_ChangeZeroNeverNaN ==
    \A i \in Returned :
        LET r == reqs[i]
            dates == r.result.dates
        IN /\ r.result.changePercent # NaN
           /\ ( \/ Len(dates) < 2
                \/ ~IsNum(CloseAt(r.timeSeries, dates[1]))
                \/ ~IsNum(CloseAt(r.timeSeries, dates[Len(dates)])) )
              => r.result.changePercent = Num(0)

\* every point of the series has a numeric text in the field
AllNumeric(timeSeries, field) ==
    \A k \in 1..Len(timeSeries) : IsNum(ParseFloat(Field(timeSeries[k].data, field)))

\* C13: for a raw series of n points delivered newest first (lows and highs
\* all numeric) and a window of at least two points, weekLow and weekHigh
\* of the snapshot are the minimum low and the maximum high of the
\* min(260, n) most recent raw points; an older point does not contribute.
C13_WeekRangeMostRecent ==
    \A i \in Returned :
        LET r == reqs[i]
            recent == SliceFirst(Keys(r.timeSeries), WeekRangeCount)
        IN ( /\ Len(r.result.dates) >= 2
             /\ NewestFirst(Keys(r.timeSeries))
             /\ AllNumeric(r.timeSeries, "3. low")
             /\ AllNumeric(r.timeSeries, "2. high") )
           => /\ r.result.weekLow = MinOf(FieldValues(r.timeSeries, recent, "3. low"))
              /\ r.result.weekHigh = MaxOf(FieldValues(r.timeSeries, recent, "2. high"))

StatFields ==
    {"previousClose", "openPrice", "dayLow", "dayHigh", "volume", "adjustedClose",
     "dividendAmount", "splitCoefficient", "weekLow", "weekHigh", "avgVolume"}

\* the calls that computed their window
Windowed == {i \in Traced : Issued(reqs[i], "call:overview")}

\* C14: for a window of no point or of one point, computeDetailedStats
\* returns the bundle of its eleven fields, every one null (it has no path
\* on which it throws), and a snapshot returned for such a window carries
\* null in each of them.
C14_ShortWindowAllNull ==
    \A i \in Windowed :
        LET r == reqs[i]
            stats == computeDetailedStats(r.timeSeries, r.dates,
                                          VolumeKey(r.params.endpoint))
        IN Len(r.dates) < 2
           => /\ DOMAIN stats = StatFields
              /\ \A f \in StatFields : stats[f] = Null
              /\ r.outcome = "ok" => \A f \in StatFields : r.result[f] = Null

\* a snapshot for a window of one point out of a raw series of several
C14_Witness ==
    \E i \in Returned :
        /\ Len(reqs[i].result.dates) = 1
        /\ Len(reqs[i].timeSeries) >= 2
        /\ \A f \in StatFields : reqs[i].result[f] = Null

\* the point dated `date` has no such field
Lacks(timeSeries, date, field) == field \notin DOMAIN Lookup(timeSeries, date)

\* C15: in a snapshot for a window of at least two points, a statistic
\* whose source field is missing from its point is null (not NaN, not 0):
\* openPrice, dayHigh, dayLow and volume for the last point of the window,
\* previousClose for the point before it, weekLow and weekHigh for the
\* points of the 52-week range.
C15_MissingFieldGivesNull ==
    \A i \in Returned :
        LET r == reqs[i]
            dates == r.result.dates
            last == dates[Len(dates)]
            previous == dates[Len(dates) - 1]
            range == Past52Weeks(r.timeSeries)
        IN Len(dates) >= 2
           => /\ Lacks(r.timeSeries, last, "1. open") => r.result.openPrice = Null
              /\ Lacks(r.timeSeries, last, "2. high") => r.result.dayHigh = Null
              /\ Lacks(r.timeSeries, last, "3. low") => r.result.dayLow = Null
              /\ Lacks(r.timeSeries, last, r.result.volumeKey)
                    => r.result.volume = Null
              /\ Lacks(r.timeSeries, previous, "4. close")
                    => r.result.previousClose = Null
              /\ (\E k \in 1..Len(range) : Lacks(r.timeSeries, range[k], "3. low"))
                    => r.result.weekLow = Null
              /\ (\E k \in 1..Len(range) : Lacks(r.timeSeries, range[k], "2. high"))
                    => r.result.weekHigh = Null

\* the parsed field of the point dated `date`
ValueAt(timeSeries, date, field) == ParseFloat(Field(Lookup(timeSeries, date), field))

\* C16: in a snapshot for a window of at least two points whose last point
\* has numeric open, high, low and volume and whose second-to-last point
\* has a numeric close, previousClose is that close and openPrice,
\* dayHigh, dayLow and volume are the open, high, low and volume of the
\* last point.
C16_DayStatsFromLastPoints ==
    \A i \in Returned :
        LET r == reqs[i]
            dates == r.result.dates
            last == dates[Len(dates)]
            previous == dates[Len(dates) - 1]
            volumeKey == r.result.volumeKey
        IN ( /\ Len(dates) >= 2
             /\ \A f \in {"1. open", "2. high", "3. low", volumeKey} :
                   IsNum(ValueAt(r.timeSeries, last, f))
             /\ IsNum(ValueAt(r.timeSeries, previous, "4. close")) )
           => /\ r.result.previousClose = ValueAt(r.timeSeries, previous, "4. close")
              /\ r.result.openPrice = ValueAt(r.timeSeries, last, "1. open")
              /\ r.result.dayHigh = ValueAt(r.timeSeries, last, "2. high")
              /\ r.result.dayLow = ValueAt(r.timeSeries, last, "3. low")
              /\ r.result.volume = ValueAt(r.timeSeries, last, volumeKey)

\* the snapshot for closes 100, 110, 90 with highs 105, 115, 95 and lows
\* 95, 105, 85: previousClose 110, dayHigh 95, dayLow 85, change -10
C16_Witness ==
    \E i \in Returned :
        LET r == reqs[i]
        IN /\ Len(r.result.dates) = 3
           /\ \A k \in 1..3 :
                 /\ CloseAt(r.timeSeries, r.result.dates[k]) = Num(<<100, 110, 90>>[k])
                 /\ ValueAt(r.timeSeries, r.result.dates[k], "2. high")
                       = Num(<<105, 115, 95>>[k])
                 /\ ValueAt(r.timeSeries, r.result.dates[k], "3. low")
                       = Num(<<95, 105, 85>>[k])
           /\ r.result.previousClose = Num(110)
           /\ r.result.dayHigh = Num(95)
           /\ r.result.dayLow = Num(85)
           /\ r.result.changePercent = Num(-10)

\* C17: the window of a call, and the snapshot it returns, are what the
\* window step and the assembly give for the call's label, raw series and
\* upstream responses at whatever instant they run: they depend on nothing
\* else, the clock included.
C17_SameInputsSameSnapshot ==
    \A i \in Windowed :
        LET r == reqs[i]
        IN \A clock \in Nows :
              /\ Window(r.timeFrame, Keys(r.timeSeries), clock) = r.dates
              /\ r.outcome = "ok"
                   => StockData(r.symbol, r.name,
                                getTimeFrameParams(r.timeFrame, clock), r.timeSeries,
                                Window(r.timeFrame, Keys(r.timeSeries), clock),
                                OverviewData(r.overviewResponse.data)) = r.result

\* nothing but spaces
Blank(s) == \A k \in 1..Len(s) : s[k] = " "

\* C18: a submission of the dialog whose input is empty or nothing but
\* whitespace is rejected with the invalid-symbol message: it starts no
\* call (no network request), leaves the slot array as it was and leaves
\* the dialog open with its input.
C18_BlankSubmissionRejected ==
    [][(isDialogOpen /\ Blank(stockInput) /\ addOrReplaceStock)
          => /\ alertMessage' = "Please enter a valid stock symbol."
             /\ reqs' = reqs
             /\ stockSymbols' = stockSymbols
             /\ isDialogOpen'
             /\ stockInput' = stockInput]_vars

\* a submission of one space was rejected
C18_Witness ==
    /\ alertMessage = "Please enter a valid stock symbol."
    /\ isDialogOpen
    /\ stockInput = <<" ">>
    /\ reqs = <<>>

\* C19: whatever was loaded, added, replaced or removed, and in whatever
\* order the calls completed, stockSymbols has exactly NUM_STOCKS = 10
\* entries (slots 0 .. 9), each null or one stock.
C19_TenSlots ==
    /\ DOMAIN stockSymbols = Slots
    /\ Cardinality(DOMAIN stockSymbols) = NUM_STOCKS
    /\ \A index \in DOMAIN stockSymbols :
          \/ stockSymbols[index] = Null
          \/ "symbol" \in DOMAIN stockSymbols[index]

\* the stored stock was removed from the first slot and a stock was added
\* to the last slot through the dialog
C19_Witness ==
    /\ stockSymbols[0] = Null
    /\ stockSymbols[NUM_STOCKS - 1] # Null
    /\ \E i \in 1..Len(reqs) : reqs[i].kind = "add" /\ reqs[i].outcome = "ok"

\* C20: no two slots hold stocks of the same symbol, whatever submissions
\* and removals were made, submissions made while the fetch of an earlier
\* one was in flight included.
C20_NoDuplicateSymbols ==
    \A i, j \in Slots :
        (i # j /\ stockSymbols[i] # Null /\ stockSymbols[j] # Null)
        => stockSymbols[i].symbol # stockSymbols[j].symbol

\* C21: after the return to the grid, selectedStock stays null until the
\* user selects a stock again.  A call for a timeframe change is started
\* from the detail view, so when it settles while the grid is shown the
\* user has returned to the grid since it was issued: its response leaves
\* selectedStock null.
C21_GridStaysAfterReturn ==
    [][\A id \in 1..Len(reqs) :
          ( /\ Pending(reqs[id])
            /\ reqs[id].kind = "timeframe"
            /\ ~Pending(reqs'[id])
            /\ selectedStock = Null )
          => selectedStock' = Null]_vars

\* C22: isLoading is true in every state in which a detail call (of
\* handleStockClick or fetchSelectedStockData) is in flight, and false once
\* every detail call issued has completed, with a snapshot or an error.
C22_LoadingTracksDetailCalls ==
    /\ DetailInFlight => isLoading
    /\ (DetailCalls # {} /\ ~DetailInFlight) => ~isLoading

\* in this step the add/replace call id completes with a snapshot of the
\* symbol that was submitted
AddCompletes(id) ==
    /\ Pending(reqs[id])
    /\ reqs[id].kind = "add"
    /\ reqs'[id].outcome = "ok"
    /\ reqs[id].symbol = reqs[id].query

\* C23: no slot update is lost, in whatever order add/replace calls and
\* removals for different slots complete.  Every completion of an
\* add/replace call puts its stock into its own slot, every removal empties
\* its own slot, and a slot changes in a step only if that step is the
\* completion of an add/replace call for it or its removal: the effects of
\* the other operations, and the slots nobody targets, stay as they are.
C23_NoLostSlotUpdate ==
    [][/\ \A id \in 1..Len(reqs) :
             AddCompletes(id)
             => /\ stockSymbols'[reqs[id].slot.num] # Null
                /\ stockSymbols'[reqs[id].slot.num].symbol = reqs[id].query
       /\ \A index \in Slots :
             stockSymbols'[index] # stockSymbols[index]
             => \/ \E id \in 1..Len(reqs) :
                      AddCompletes(id) /\ reqs[id].slot = Num(index)
                \/ handleRemoveStock(index) /\ stockSymbols'[index] = Null]_vars

\* two add/replace calls for different slots were in flight together: the
\* one issued later has put its stock into the last slot, the one for the
\* first slot has not completed, and the first slot holds the stored stock
C23_Witness ==
    /\ Len(reqs) = 2
    /\ reqs[1].kind = "add" /\ Pending(reqs[1]) /\ reqs[1].slot = Num(0)
    /\ reqs[2].kind = "add" /\ reqs[2].outcome = "ok"
    /\ stockSymbols[0] # Null /\ stockSymbols[0].symbol = SymA
    /\ stockSymbols[NUM_STOCKS - 1] # Null
    /\ stockSymbols[NUM_STOCKS - 1].symbol = SymB

\* C24: addOrReplaceStock writes a stock into a slot only if the symbol the
\* search resolved equals the trimmed, upper-cased input.  When the call
\* completes with a snapshot of another symbol, the slot array and the
\* dialog are left as they are (an open dialog stays open) and the user is
\* told that no data was found; when the slot array changes, the stock
\* written has the symbol that was submitted.
C24_OnlyExactSymbolAdded ==
    [][\A id \in 1..Len(reqs) :
          ( /\ Pending(reqs[id])
            /\ reqs[id].kind = "add"
            /\ reqs'[id].outcome = "ok" )
          => IF reqs[id].symbol = reqs[id].query
             THEN stockSymbols'[reqs[id].slot.num].symbol = reqs[id].query
             ELSE /\ stockSymbols' = stockSymbols
                  /\ isDialogOpen' = isDialogOpen
                  /\ alertMessage' = "No data found for the provided stock symbol."]_vars

\* the search resolved the input to another symbol: the call has completed,
\* the dialog is open, the user was told that no data was found and the
\* slots hold what was loaded at mount
C24_Witness ==
    /\ alertMessage = "No data found for the provided stock symbol."
    /\ isDialogOpen
    /\ \E id \in 1..Len(reqs) : reqs[id].kind = "add" /\ reqs[id].outcome = "ok"
    /\ stockSymbols[0] # Null /\ stockSymbols[0].symbol = SymA
    /\ \A index \in Slots \ {0} : stockSymbols[index] = Null

=============================================================================
